---- MODULE Spec2Model ----
(***************************************************************************)
(* A model of the neon load test: one NeonProject (the entity) from its    *)
(* init in run, its async-mutex Mutex, the four recurring tasks that       *)
(* startDoingThings registers with scheduleAtRate, the operations          *)
(* writeUser, createCheckpoint, createPreview and rollback, and the        *)
(* failureStats counters.  The operations are those of the variant of      *)
(* index.ts that records latencies (src/unnamed/part_000); src/index.ts    *)
(* has the same operations without the samples.                            *)
(*                                                                         *)
(* Node runs one event-loop turn at a time: a timer callback or an I/O     *)
(* completion runs, with every promise continuation it makes runnable,     *)
(* before the next timer or completion is looked at.  An action of this    *)
(* model is one such turn, with two exceptions that split a turn: the      *)
(* start of a runExclusive callback after the lock was granted (Enter),    *)
(* and the arrival of the listProjectBranches response (ListResponse)      *)
(* before rollback reads it (ListReturn).  The lock is held across both.   *)
(*                                                                         *)
(* Spec is the program as run drives one project.  The other              *)
(* specifications add or isolate a part: SpecCancel a caller of the        *)
(* cancel handles, SpecExit the SIGINT handler, SpecDirect a caller of     *)
(* the operations that does not wait for init, SpecStall calls that never  *)
(* return, SpecFair the fairness of the event loop, SpecRun the            *)
(* population of projects that run builds, SpecPopulation the locks of     *)
(* the started projects,                                                   *)
(* SpecPercentiles calculatePercentiles and SpecSchedule the delay that    *)
(* scheduleAtRate computes.                                                *)
(***************************************************************************)
EXTENDS Integers, Sequences, FiniteSets, TLC

\* ---------------------------------------------------------------- bounds
\* The number of operation invocations that acquire the lock in one run.
MaxInv == 3
\* Durations (Date.now() differences) are 0..MaxDuration.
MaxDuration == 1
\* The longest branch listing the backend returns.
MaxListing == 1
\* The number of times a caller invokes a cancel handle (SpecCancel).
MaxCancels == 1
\* options.numInitialProjects: the projects of the initial population (SpecRun).
NumInitialProjects == 2
\* The projects that the project-creation task creates in one run (SpecRun).
MaxCreated == 2
\* The longest array passed to calculatePercentiles (SpecPercentiles).
MaxSamples == 10

\* ---------------------------------------------------------------- domains
\* The four recurring tasks of startDoingThings, named by the operation.
Kinds == {"write", "checkpoint", "preview", "rollback"}

\* Branch identifiers the backend hands out.
BranchIds == {"br-a", "br-b"}

\* The value of an optional field that was never assigned.
Undefined == "undefined"

\* The branch id of the createProject response.
CreatedBranchIds == {"br-main"}

\* `main-old-${nanoid()}`: the name a rollback call generates.  Names are only
\* compared with the names of listed branches, so one name and one other name
\* stand for all of them.
PreserveNames == {"main-old-1"}

\* Names a listed branch can carry.
BranchNames == PreserveNames \cup {"main-old-2"}

Durations == 0..MaxDuration

\* A branch of a listProjectBranches response.
Branches == [id : BranchIds, name : BranchNames]

RECURSIVE SeqsUpTo(_, _)
SeqsUpTo(S, n) ==
  IF n = 0 THEN {<<>>}
  ELSE LET shorter == SeqsUpTo(S, n - 1)
       IN  shorter \cup {Append(s, x) : s \in {t \in shorter : Len(t) = n - 1}, x \in S}

\* The responses of listProjectBranches: data.branches.
Listings == SeqsUpTo(Branches, MaxListing)

VARIABLES
  initPc,             \* where NeonProject.init is: the call it awaits
  initLocals,         \* init's locals: what res and result were found to hold
  metadata,           \* this.metadata: "set" or Undefined
  ms,                 \* metadata.writeMs, checkpointMs, previewMs, rollbackMs
  mainDbUri,          \* this.mainDbUri: "uri" or Undefined
  mainBranchId,       \* this.mainBranchId
  checkpointBranches, \* this.checkpointBranches
  previewBranches,    \* this.previewBranches
  mutex,              \* this.mutex: its holder and its queue of waiters
  inv,                \* the operation invocations in flight, by invocation id
  nextId,             \* the id of the next invocation: ids follow lock requests
  failureStats,       \* util.ts failureStats
  pending,            \* per task: whether its setTimeout timer is pending
  cancelCalled,       \* per task: whether its cancel handle was invoked
  failed,             \* per operation: the invocations of it that threw so far
  finished,           \* per operation: the invocations of it that are over
  out,                \* what handleExit has done: the summary, then the exit
  runPc,              \* where run is: "startup", "running" or "rejected"
  projectInit,        \* per project of the population: where its init is
  projects,           \* the projects array of run
  started,            \* the projects on which startDoingThings was called
  creationTimer,      \* whether the timer of the project-creation task is pending
  values,             \* the argument of a calculatePercentiles call
  result,             \* what the call returned
  intervalMs,         \* scheduleAtRate: intervalMs
  delay,              \* scheduleNext: the delay passed to setTimeout
  locks,              \* per project of the population: its this.mutex
  calls,              \* the operation calls in flight on the population, by id
  nextCall,           \* the id of the next of these calls
  completed           \* per project: its operation calls that are over

vars == <<initPc, initLocals, metadata, ms, mainDbUri, mainBranchId, checkpointBranches,
          previewBranches, mutex, inv, nextId, failureStats, pending,
          cancelCalled, failed, finished, out, runPc, projectInit, projects,
          started, creationTimer, values, result, intervalMs, delay, locks,
          calls, nextCall, completed>>

entityVars == <<metadata, ms, mainDbUri, mainBranchId, checkpointBranches,
                previewBranches>>

\* run's view of the population.
runVars == <<runPc, projectInit, projects, started, creationTimer>>

\* The locks of the projects of the population and the calls that use them.
lockVars == <<locks, calls, nextCall, completed>>

\* The calls of util.ts functions taken on their own.
utilVars == <<values, result, intervalMs, delay>>

\* What the steps of the entity and of its tasks leave alone.
outsideVars == <<out, runVars, utilVars, lockVars>>

\* The process has not exited.
Running == out = <<>>

\* ---------------------------------------------------------------- async-mutex
\* A lock that is handed out whether it is held or not.
MutantAcquireNoWait(mx, i) == [holder |-> i, queue |-> mx.queue]

\* Mutex.acquire as called by runExclusive: the caller gets the lock when it is
\* free and is queued behind the earlier callers otherwise.
MutexAcquire(mx, i) ==
  IF mx.holder = 0 /\ mx.queue = <<>>
  THEN [holder |-> i, queue |-> <<>>]
  ELSE [holder |-> mx.holder, queue |-> Append(mx.queue, i)]

\* A release that passes the lock to the last waiter.
MutantReleaseToLast(mx) ==
  IF mx.queue = <<>>
  THEN [holder |-> 0, queue |-> <<>>]
  ELSE [holder |-> mx.queue[Len(mx.queue)],
        queue |-> SubSeq(mx.queue, 1, Len(mx.queue) - 1)]

\* The release function of acquire: the lock goes to the first waiter, if any.
MutexRelease(mx) ==
  IF mx.queue = <<>>
  THEN [holder |-> 0, queue |-> <<>>]
  ELSE [holder |-> Head(mx.queue), queue |-> Tail(mx.queue)]

\* A runExclusive without finally: a callback that throws keeps the lock.
MutantReleaseOnReturnOnly(mx, threw) == IF threw THEN mx ELSE MutexRelease(mx)

\* runExclusive's try/finally: release() runs whether the callback returned
\* (threw = FALSE) or threw.
RunExclusiveFinally(mx, threw) == MutexRelease(mx)

\* ---------------------------------------------------------------- scheduleAtRate
\* clearTimeout(timeoutId): a pending timer is removed; a fired one is left.
ClearTimeout(p, chain) == [p EXCEPT ![chain] = FALSE]

\* scheduleNext: setTimeout arms the task's next timer.
ScheduleNext(p, chain) == [p EXCEPT ![chain] = TRUE]

\* A callback that launches the work and arms no timer.
MutantNoRearm(p, chain, handleInvoked) == [p EXCEPT ![chain] = FALSE]

\* A callback that arms the next timer only when no earlier work is in flight.
MutantRearmWhenIdle(p, chain, handleInvoked) ==
  [p EXCEPT ![chain] = (DOMAIN inv = {})]

\* The timer callback of scheduleNext, seen from the timers: the timer that
\* fired is gone, the work is launched (and invokes the cancel handle in its
\* synchronous part when handleInvoked), then scheduleNext runs.
TimerCallback(p, chain, handleInvoked) ==
  LET fired   == [p EXCEPT ![chain] = FALSE]
      cleared == IF handleInvoked THEN ClearTimeout(fired, chain) ELSE fired
  IN  ScheduleNext(cleared, chain)

\* ---------------------------------------------------------------- failureStats
\* The preview task counting its failures as rollback failures.
MutantCounter(chain) == IF chain = "preview" THEN "rollback" ELSE chain

\* The counter that the onError callback of a task increments.
Counter(chain) == chain

\* An onError that logs the error and counts nothing.
MutantOnErrorLogOnly(fs, chain) == fs

OnError(fs, chain) == [fs EXCEPT !.action[Counter(chain)] = @ + 1]

\* ---------------------------------------------------------------- run
\* The population, each project reduced to the position of its init: the
\* projects of the initial population and those of the project-creation task.
InitialProjects == 1..NumInitialProjects

CreatedProjects == (NumInitialProjects + 1)..(NumInitialProjects + MaxCreated)

Projects == InitialProjects \cup CreatedProjects

\* The calls that NeonProject.init awaits.
InitCalls ==
  {"createProject", "getConnectionUri", "createTable", "insert", "select", "end"}

\* mutex = new Mutex(): each project is constructed with a lock of its own,
\* which is free; no operation was called.
LocksInit ==
  /\ locks = [p \in Projects |-> [holder |-> 0, queue |-> <<>>]]
  /\ calls = <<>>
  /\ nextCall = 1
  /\ completed = [p \in Projects |-> 0]

\* run has reached its Promise.all: every init of the initial population has
\* sent createProject; no project of the creation task exists.
RunInit ==
  /\ runPc = "startup"
  /\ projectInit = [p \in Projects |->
                      IF p \in InitialProjects THEN "createProject" ELSE "none"]
  /\ projects = <<>>
  /\ started = {}
  /\ creationTimer = FALSE
  /\ LocksInit

\* The entity and its tasks, which the steps of run's view leave alone.
taskVars == <<initPc, initLocals, entityVars, mutex, inv, nextId, pending,
              cancelCalled, failed, finished, lockVars>>

\* Where init is after the call it awaited at pc has returned (ok) or was
\* rejected: at its next await, over ("ready"), or thrown out of ("failed").
InitAfter(pc, ok, hasRole, hasDb, rows) ==
  CASE ~ok -> "failed"
    [] ok /\ pc = "createProject" ->
         IF hasRole /\ hasDb THEN "getConnectionUri" ELSE "failed"
    [] ok /\ pc = "getConnectionUri" -> "createTable"
    [] ok /\ pc = "createTable" -> "insert"
    [] ok /\ pc = "insert" -> "select"
    [] ok /\ pc = "select" -> "end"
    [] OTHER -> IF rows > 0 THEN "ready" ELSE "failed"

\* A call of the init of project p returns and init goes on to its next await.
ProjectInitStep(p, ok, hasRole, hasDb, rows) ==
  /\ Running
  /\ projectInit[p] \in InitCalls
  /\ InitAfter(projectInit[p], ok, hasRole, hasDb, rows) \in InitCalls
  /\ projectInit' =
       [projectInit EXCEPT ![p] = InitAfter(@, ok, hasRole, hasDb, rows)]
  /\ UNCHANGED <<runPc, projects, started, creationTimer, failureStats>>
  /\ UNCHANGED <<taskVars, out, utilVars>>

\* for (const project of projects) project.startDoingThings(options)
StartAll(ps) == {ps[n] : n \in 1..Len(ps)}

\* Promise.all resolves when every init of the initial population has
\* resolved, and so run goes on to register the tasks.
PromiseAllResolves(ps) == Len(ps) = NumInitialProjects

\* The init of a project of the initial population returns: the project is
\* pushed, and when that resolves the Promise.all, run starts the projects
\* and registers the project-creation task.
InitialProjectReady(p, rows) ==
  /\ Running
  /\ p \in InitialProjects
  /\ projectInit[p] = "end"
  /\ InitAfter("end", TRUE, TRUE, TRUE, rows) = "ready"
  /\ projectInit' = [projectInit EXCEPT ![p] = "ready"]
  /\ projects' = Append(projects, p)
  /\ IF runPc = "startup" /\ PromiseAllResolves(projects')
     THEN /\ started' = StartAll(projects')
          /\ creationTimer' = TRUE
          /\ runPc' = "running"
     ELSE UNCHANGED <<started, creationTimer, runPc>>
  /\ UNCHANGED failureStats
  /\ UNCHANGED <<taskVars, out, utilVars>>

\* The init of a project of the initial population throws: the Promise.all
\* rejects, run rejects, and the top-level catch logs "error during setup".
InitialProjectFails(p, ok, hasRole, hasDb, rows) ==
  /\ Running
  /\ p \in InitialProjects
  /\ projectInit[p] \in InitCalls
  /\ InitAfter(projectInit[p], ok, hasRole, hasDb, rows) = "failed"
  /\ projectInit' = [projectInit EXCEPT ![p] = "failed"]
  /\ runPc' = "rejected"
  /\ UNCHANGED <<projects, started, creationTimer, failureStats>>
  /\ UNCHANGED <<taskVars, out, utilVars>>

\* The timer of the project-creation task fires: the work constructs project
\* p, whose init sends createProject, and the next timer is armed.
CreationFires(p) ==
  /\ Running
  /\ creationTimer
  /\ p \in CreatedProjects
  /\ projectInit[p] = "none"
  /\ \A q \in CreatedProjects : q < p => projectInit[q] # "none"
  /\ projectInit' = [projectInit EXCEPT ![p] = "createProject"]
  /\ creationTimer' = TRUE
  /\ UNCHANGED <<runPc, projects, started, failureStats>>
  /\ UNCHANGED <<taskVars, out, utilVars>>

\* The init of a project of the creation task returns: startDoingThings, then
\* the push.
CreatedProjectReady(p, rows) ==
  /\ Running
  /\ p \in CreatedProjects
  /\ projectInit[p] = "end"
  /\ InitAfter("end", TRUE, TRUE, TRUE, rows) = "ready"
  /\ projectInit' = [projectInit EXCEPT ![p] = "ready"]
  /\ started' = started \cup {p}
  /\ projects' = Append(projects, p)
  /\ UNCHANGED <<runPc, creationTimer, failureStats>>
  /\ UNCHANGED <<taskVars, out, utilVars>>

\* The init of a project of the creation task throws: the work rejects and the
\* task's onError counts it.
CreatedProjectFails(p, ok, hasRole, hasDb, rows) ==
  /\ Running
  /\ p \in CreatedProjects
  /\ projectInit[p] \in InitCalls
  /\ InitAfter(projectInit[p], ok, hasRole, hasDb, rows) = "failed"
  /\ projectInit' = [projectInit EXCEPT ![p] = "failed"]
  /\ failureStats' = [failureStats EXCEPT !.project = @ + 1]
  /\ UNCHANGED <<runPc, projects, started, creationTimer>>
  /\ UNCHANGED <<taskVars, out, utilVars>>

\* ---------------------------------------------------------------- population
\* The operations of the projects of the population, reduced to their use of
\* the lock: a call asks for the lock, its callback starts, the backend call
\* it awaits returns, fails or never answers.

\* Startup is over: every init of the initial population has returned, and run
\* has started the projects and registered the project-creation task.
StartedInit ==
  /\ runPc = "running"
  /\ projectInit = [p \in Projects |->
                      IF p \in InitialProjects THEN "ready" ELSE "none"]
  /\ projects = [n \in 1..NumInitialProjects |-> n]
  /\ started = InitialProjects
  /\ creationTimer = TRUE
  /\ LocksInit

\* A NeonProject class with one lock for all its instances.
MutantStaticMutex(p) == 1

\* this.mutex of project p: the lock that the constructor of p made.
ThisMutex(p) == p

CallIds == 1..MaxInv

\* A timer of a task of project p fires and its work calls an operation, which
\* calls runExclusive on this.mutex.
ProjectFire(p) ==
  LET id == nextCall
      m == ThisMutex(p)
      mx == MutexAcquire(locks[m], id)
  IN  /\ Running
      /\ p \in started
      /\ nextCall <= MaxInv
      /\ nextCall' = id + 1
      /\ locks' = [locks EXCEPT ![m] = mx]
      /\ calls' = [c \in DOMAIN calls \cup {id} |->
                    IF c = id
                    THEN [project |-> p,
                          pc |-> IF mx.holder = id THEN "granted" ELSE "waiting"]
                    ELSE calls[c]]
      /\ UNCHANGED completed
      /\ UNCHANGED <<initPc, initLocals, entityVars, mutex, inv, nextId, pending,
                     cancelCalled, failed, finished, failureStats>>
      /\ UNCHANGED <<out, runVars, utilVars>>

\* The callback of call c starts and awaits its backend call.
ProjectEnter(c) ==
  /\ Running
  /\ c \in DOMAIN calls
  /\ calls[c].pc = "granted"
  /\ calls' = [calls EXCEPT ![c].pc = "call"]
  /\ UNCHANGED <<locks, nextCall, completed>>
  /\ UNCHANGED <<initPc, initLocals, entityVars, mutex, inv, nextId, pending,
                 cancelCalled, failed, finished, failureStats>>
  /\ UNCHANGED <<out, runVars, utilVars>>

\* The backend call of call c returns or is rejected: the callback is over,
\* by a return or by a throw, and runExclusive releases the lock of the project
\* to its first waiter.
ProjectReturn(c, threw) ==
  LET m == ThisMutex(calls[c].project)
      mx == RunExclusiveFinally(locks[m], threw)
  IN  /\ Running
      /\ c \in DOMAIN calls
      /\ calls[c].pc = "call"
      /\ locks' = [locks EXCEPT ![m] = mx]
      /\ calls' = [d \in DOMAIN calls \ {c} |->
                    IF d = mx.holder THEN [calls[d] EXCEPT !.pc = "granted"]
                    ELSE calls[d]]
      /\ completed' = [completed EXCEPT ![calls[c].project] = @ + 1]
      /\ UNCHANGED nextCall
      /\ UNCHANGED <<initPc, initLocals, entityVars, mutex, inv, nextId, pending,
                     cancelCalled, failed, finished, failureStats>>
      /\ UNCHANGED <<out, runVars, utilVars>>

\* The backend call of call c never answers: the callback stays at its await.
ProjectStall(c) ==
  /\ Running
  /\ c \in DOMAIN calls
  /\ calls[c].pc = "call"
  /\ calls' = [calls EXCEPT ![c].pc = "never"]
  /\ UNCHANGED <<locks, nextCall, completed>>
  /\ UNCHANGED <<initPc, initLocals, entityVars, mutex, inv, nextId, pending,
                 cancelCalled, failed, finished, failureStats>>
  /\ UNCHANGED <<out, runVars, utilVars>>

\* ---------------------------------------------------------------- util calls
\* What result holds before calculatePercentiles has returned.
NotReturned == [returned |-> FALSE]

\* No util function is being looked at on its own.
UtilInit ==
  /\ values = <<>>
  /\ result = NotReturned
  /\ intervalMs = 0
  /\ delay = 0

\* What init holds in res and result before the responses have arrived.
NoLocals == [hasRole |-> FALSE, hasDb |-> FALSE, branchId |-> Undefined, rows |-> 0]

\* ---------------------------------------------------------------- init
\* The entity as constructed, its tasks not yet registered.
EntityInit ==
  /\ initPc = "createProject"
  /\ initLocals = NoLocals
  /\ metadata = Undefined
  /\ ms = [k \in Kinds |-> <<>>]
  /\ mainDbUri = Undefined
  /\ mainBranchId = Undefined
  /\ checkpointBranches = {}
  /\ previewBranches = {}
  /\ mutex = [holder |-> 0, queue |-> <<>>]
  /\ inv = <<>>
  /\ nextId = 1
  /\ failureStats = [project |-> 0, action |-> [k \in Kinds |-> 0]]
  /\ pending = [k \in Kinds |-> FALSE]
  /\ cancelCalled = [k \in Kinds |-> FALSE]
  /\ failed = [k \in Kinds |-> 0]
  /\ finished = [k \in Kinds |-> 0]
  /\ out = <<>>

Init == EntityInit /\ RunInit /\ UtilInit

\* init throws: the Promise.all of run rejects, run rejects, and the top-level
\* catch logs "error during setup"; nothing is scheduled.
InitThrows ==
  /\ initPc' = "failed"
  /\ UNCHANGED <<metadata, ms, mainDbUri, mainBranchId, checkpointBranches,
                 previewBranches, mutex, inv, nextId, failureStats, pending,
                 cancelCalled, failed, finished>>

\* createProject returns: the role and database checks, then mainBranchId.
InitCreateProject(ok, hasRole, hasDb, branchId) ==
  /\ Running
  /\ initPc = "createProject"
  /\ initLocals' = IF ok
                   THEN [initLocals EXCEPT !.hasRole = hasRole, !.hasDb = hasDb,
                                           !.branchId = branchId]
                   ELSE initLocals
  /\ IF ok /\ hasRole /\ hasDb
     THEN /\ initPc' = "getConnectionUri"
          /\ mainBranchId' = branchId
          /\ UNCHANGED <<metadata, ms, mainDbUri, checkpointBranches,
                         previewBranches, mutex, inv, nextId, failureStats,
                         pending, cancelCalled, failed, finished>>
     ELSE InitThrows
  /\ UNCHANGED outsideVars

\* getConnectionUri returns: mainDbUri is set and CREATE TABLE is sent.
InitGetConnectionUri(ok) ==
  /\ Running
  /\ initPc = "getConnectionUri"
  /\ IF ok
     THEN /\ initPc' = "createTable"
          /\ mainDbUri' = "uri"
          /\ UNCHANGED <<metadata, ms, mainBranchId, checkpointBranches,
                         previewBranches, mutex, inv, nextId, failureStats,
                         pending, cancelCalled, failed, finished>>
     ELSE InitThrows
  /\ UNCHANGED initLocals
  /\ UNCHANGED outsideVars

\* CREATE TABLE, INSERT and SELECT return in turn; result holds the rows of
\* the SELECT.
InitSql(ok, rows) ==
  /\ Running
  /\ initPc \in {"createTable", "insert", "select"}
  /\ initLocals' = IF ok /\ initPc = "select"
                   THEN [initLocals EXCEPT !.rows = rows]
                   ELSE initLocals
  /\ IF ok
     THEN /\ initPc' = CASE initPc = "createTable" -> "insert"
                         [] initPc = "insert" -> "select"
                         [] OTHER -> "end"
          /\ UNCHANGED <<metadata, ms, mainDbUri, mainBranchId,
                         checkpointBranches, previewBranches, mutex, inv, nextId,
                         failureStats, pending, cancelCalled, failed, finished>>
     ELSE InitThrows
  /\ UNCHANGED outsideVars

\* A row check that lets an empty result pass.
MutantNoRowCheck(rows) == TRUE

\* result.length === 0 throws 'ping failed, unexpected result'.
PingOk(rows) == rows > 0

\* sql.end() returns: the row check, metadata, and then, in run, the push onto
\* projects and startDoingThings, which registers the four tasks.
InitEnd(ok) ==
  /\ Running
  /\ initPc = "end"
  /\ IF ok /\ PingOk(initLocals.rows)
     THEN /\ initPc' = "ready"
          /\ metadata' = "set"
          /\ pending' = ScheduleNext(ScheduleNext(ScheduleNext(ScheduleNext(
                          pending, "write"), "checkpoint"), "preview"), "rollback")
          /\ UNCHANGED <<ms, mainDbUri, mainBranchId, checkpointBranches,
                         previewBranches, mutex, inv, nextId, failureStats,
                         cancelCalled, failed, finished>>
     ELSE InitThrows
  /\ UNCHANGED initLocals
  /\ UNCHANGED outsideVars

\* ---------------------------------------------------------------- the tasks
\* Preview and rollback tasks that do not look at the checkpoint set.
MutantNeverSkipped(chain) ==
  CASE chain = "write" -> mainDbUri = Undefined
    [] OTHER -> FALSE

\* The early return of a task's work: no operation is called.
Skipped(chain) ==
  CASE chain = "write" -> mainDbUri = Undefined
    [] chain = "checkpoint" -> FALSE
    [] OTHER -> checkpointBranches = {}

\* random(Array.from(set)): any element, and undefined for no element.
Random(set) == IF set = {} THEN {Undefined} ELSE set

\* A pick among all branch ids, whether checkpoints of the project or not.
MutantPickAnyBranch(chain) ==
  CASE chain = "write" -> {mainDbUri}
    [] chain = "checkpoint" -> {Undefined}
    [] OTHER -> BranchIds

\* The argument the work passes to the operation.
Args(chain) ==
  CASE chain = "write" -> {mainDbUri}
    [] chain = "checkpoint" -> {Undefined}
    [] OTHER -> Random(checkpointBranches)

\* An operation of the given kind is called, by the work of a task (chain) or
\* by another caller: it calls mutex.runExclusive and invocation id asks for
\* the lock.
Invoke(kind, chain, arg) ==
  LET id == nextId
      mx == MutexAcquire(mutex, id)
  IN  /\ nextId <= MaxInv
      /\ mutex' = mx
      /\ nextId' = id + 1
      /\ inv' = [j \in DOMAIN inv \cup {id} |->
                  IF j = id
                  THEN [kind |-> kind, chain |-> chain, arg |-> arg,
                        pc |-> IF mx.holder = id THEN "granted" ELSE "waiting",
                        queued |-> mx.holder # id,
                        preserveName |-> Undefined, restoreId |-> Undefined,
                        branchesRes |-> <<>>]
                  ELSE inv[j]]

\* The work of a task calls its operation.
Launch(chain, arg) == Invoke(chain, chain, arg)

\* A task's timer fires: the work is launched and the next timer is armed.
TimerFires(chain, handleInvoked) ==
  /\ Running
  /\ pending[chain]
  /\ pending' = TimerCallback(pending, chain, handleInvoked)
  /\ IF Skipped(chain)
     THEN UNCHANGED <<mutex, inv, nextId>>
     ELSE \E arg \in Args(chain) : Launch(chain, arg)
  /\ UNCHANGED <<initPc, initLocals, failureStats, failed, finished>>
  /\ UNCHANGED entityVars
  /\ UNCHANGED outsideVars

Fire(chain) ==
  /\ TimerFires(chain, FALSE)
  /\ UNCHANGED cancelCalled

\* ---------------------------------------------------------------- runExclusive
\* The callback of invocation i is over: runExclusive releases the lock, which
\* passes to the first waiter, and the invocation is gone.
Finish(i, threw) ==
  LET mx == RunExclusiveFinally(mutex, threw)
  IN  /\ mutex' = mx
      /\ inv' = [j \in DOMAIN inv \ {i} |->
                  IF j = mx.holder THEN [inv[j] EXCEPT !.pc = "granted"]
                  ELSE inv[j]]
      /\ finished' = [finished EXCEPT ![inv[i].kind] = @ + 1]

\* The callback returned: the promise of the work resolves.
Return(i) ==
  /\ Finish(i, FALSE)
  /\ UNCHANGED <<failureStats, failed>>

\* The callback threw: the promise of the operation rejects; when a task had
\* called it, the promise of the work rejects and .catch(onError) runs the
\* task's onError.
Throw(i) ==
  /\ Finish(i, TRUE)
  /\ failureStats' = IF inv[i].chain \in Kinds
                     THEN OnError(failureStats, inv[i].chain)
                     ELSE failureStats
  /\ failed' = [failed EXCEPT ![inv[i].kind] = @ + 1]

\* The invocation awaits its next call.
Await(i, call) ==
  /\ inv' = [inv EXCEPT ![i].pc = call]
  /\ UNCHANGED <<mutex, failureStats, failed, finished>>

At(i, kind, pc) ==
  /\ i \in DOMAIN inv
  /\ inv[i].kind = kind
  /\ inv[i].pc = pc

\* Operations that check the field they use and not metadata.
MutantCheckFieldOnly(kind) ==
  CASE kind = "preview" -> mainDbUri = Undefined
    [] kind = "rollback" -> mainBranchId = Undefined
    [] kind = "write" -> mainDbUri = Undefined
    [] OTHER -> mainBranchId = Undefined

\* The "project not initialized" check that opens each callback.
NotInitialized(kind) ==
  CASE kind = "preview" -> metadata = Undefined \/ mainDbUri = Undefined
    [] kind = "rollback" -> metadata = Undefined \/ mainBranchId = Undefined
    [] OTHER -> metadata = Undefined

\* The first call of each operation.
FirstCall(kind) ==
  CASE kind = "write" -> "insert"
    [] kind = "checkpoint" -> "createBranch"
    [] kind = "preview" -> "createBranch"
    [] OTHER -> "restore"

\* The callback of runExclusive starts: the check, then the first call;
\* rollback draws its preserveName first.
Enter(i, name) ==
  /\ Running
  /\ i \in DOMAIN inv
  /\ inv[i].pc = "granted"
  /\ IF NotInitialized(inv[i].kind)
     THEN Throw(i)
     ELSE /\ inv' = [inv EXCEPT ![i].pc = FirstCall(inv[i].kind),
                                ![i].preserveName =
                                  IF inv[i].kind = "rollback" THEN name ELSE Undefined]
          /\ UNCHANGED <<mutex, failureStats, failed, finished>>
  /\ UNCHANGED <<initPc, initLocals, nextId, pending, cancelCalled>>
  /\ UNCHANGED entityVars
  /\ UNCHANGED outsideVars

\* ---------------------------------------------------------------- backend
\* The calls an invocation can be awaiting inside its callback.
Calls == {"insert", "end", "createBranch", "select", "restore", "list"}

\* Inside the callback of runExclusive: awaiting a call, or holding the
\* listing that has arrived.
InCallback == Calls \cup {"listed"}

\* The call that invocation i awaits rejects (a backend or database error):
\* the callback throws at that await.
CallFails(i) ==
  /\ Running
  /\ i \in DOMAIN inv
  /\ inv[i].pc \in Calls
  /\ Throw(i)
  /\ UNCHANGED <<initPc, initLocals, nextId, pending, cancelCalled>>
  /\ UNCHANGED entityVars
  /\ UNCHANGED outsideVars

\* The call that invocation i awaits never returns and never rejects: nothing
\* in the operations or in scheduleAtRate puts a time limit on an await, so the
\* callback stays at that await, inside runExclusive.
Stall(i) ==
  /\ Running
  /\ i \in DOMAIN inv
  /\ inv[i].pc \in Calls
  /\ inv' = [inv EXCEPT ![i].pc = "never"]
  /\ UNCHANGED <<initPc, initLocals, mutex, nextId, pending, cancelCalled, failureStats,
                 failed, finished>>
  /\ UNCHANGED entityVars
  /\ UNCHANGED outsideVars

\* ---------------------------------------------------------------- writeUser
\* INSERT returns; sql.end() is awaited.
WriteInsertReturn(i) ==
  /\ Running
  /\ At(i, "write", "insert")
  /\ Await(i, "end")
  /\ UNCHANGED <<initPc, initLocals, nextId, pending, cancelCalled>>
  /\ UNCHANGED entityVars
  /\ UNCHANGED outsideVars

\* sql.end() returns: the duration is pushed onto writeMs.
WriteEndReturn(i, d) ==
  /\ Running
  /\ At(i, "write", "end")
  /\ ms' = [ms EXCEPT !.write = Append(@, d)]
  /\ Return(i)
  /\ UNCHANGED <<initPc, initLocals, nextId, pending, cancelCalled, metadata, mainDbUri,
                 mainBranchId, checkpointBranches, previewBranches>>
  /\ UNCHANGED outsideVars

\* ---------------------------------------------------------------- createCheckpoint
\* createProjectBranch returns branch b.
CheckpointReturn(i, b, d) ==
  /\ Running
  /\ At(i, "checkpoint", "createBranch")
  /\ checkpointBranches' = checkpointBranches \cup {b}
  /\ ms' = [ms EXCEPT !.checkpoint = Append(@, d)]
  /\ Return(i)
  /\ UNCHANGED <<initPc, initLocals, nextId, pending, cancelCalled, metadata, mainDbUri,
                 mainBranchId, previewBranches>>
  /\ UNCHANGED outsideVars

\* ---------------------------------------------------------------- createPreview
\* createProjectBranch returns branch b: its id is added to previewBranches,
\* and then the endpoint is looked for.
PreviewCreateReturn(i, b, hasEndpoint) ==
  /\ Running
  /\ At(i, "preview", "createBranch")
  /\ previewBranches' = previewBranches \cup {b}
  /\ IF hasEndpoint THEN Await(i, "select") ELSE Throw(i)
  /\ UNCHANGED <<initPc, initLocals, nextId, pending, cancelCalled, metadata, ms, mainDbUri,
                 mainBranchId, checkpointBranches>>
  /\ UNCHANGED outsideVars

\* SELECT on the preview branch returns; sql.end() is awaited.
PreviewSelectReturn(i) ==
  /\ Running
  /\ At(i, "preview", "select")
  /\ Await(i, "end")
  /\ UNCHANGED <<initPc, initLocals, nextId, pending, cancelCalled>>
  /\ UNCHANGED entityVars
  /\ UNCHANGED outsideVars

\* sql.end() returns: the duration is pushed onto previewMs.
PreviewEndReturn(i, d) ==
  /\ Running
  /\ At(i, "preview", "end")
  /\ ms' = [ms EXCEPT !.preview = Append(@, d)]
  /\ Return(i)
  /\ UNCHANGED <<initPc, initLocals, nextId, pending, cancelCalled, metadata, mainDbUri,
                 mainBranchId, checkpointBranches, previewBranches>>
  /\ UNCHANGED outsideVars

\* ---------------------------------------------------------------- rollback
\* What find returns when no branch matches.
NotFound == [id |-> Undefined, name |-> Undefined]

\* A lookup that settles for the first branch listed.
MutantFindFirst(branches, name) ==
  IF branches = <<>> THEN NotFound ELSE Head(branches)

\* branches.find(b => b.name === preserveName): the first branch of that name,
\* or undefined.
RECURSIVE Find(_, _)
Find(branches, name) ==
  IF branches = <<>> THEN NotFound
  ELSE IF Head(branches).name = name THEN Head(branches)
  ELSE Find(Tail(branches), name)

\* A rollback that trusts the id of the restore response.
MutantAdoptRestored(preserved, restoreId) == restoreId

\* The id that rollback assigns to mainBranchId.
Adopted(preserved, restoreId) == preserved.id

\* restoreProjectBranch returns, reporting branch id rid, which is not read.
RestoreReturn(i, rid) ==
  /\ Running
  /\ At(i, "rollback", "restore")
  /\ inv' = [inv EXCEPT ![i].pc = "list", ![i].restoreId = rid]
  /\ UNCHANGED <<mutex, failureStats, failed, finished>>
  /\ UNCHANGED <<initPc, initLocals, nextId, pending, cancelCalled>>
  /\ UNCHANGED entityVars
  /\ UNCHANGED outsideVars

\* The response of listProjectBranches arrives: branchesRes.data.branches.
ListResponse(i, branches) ==
  /\ Running
  /\ At(i, "rollback", "list")
  /\ inv' = [inv EXCEPT ![i].pc = "listed", ![i].branchesRes = branches]
  /\ UNCHANGED <<mutex, failureStats, failed, finished>>
  /\ UNCHANGED <<initPc, initLocals, nextId, pending, cancelCalled>>
  /\ UNCHANGED entityVars
  /\ UNCHANGED outsideVars

\* rollback goes on after listProjectBranches: the preserved branch is looked
\* up by name.
ListReturn(i, d) ==
  /\ Running
  /\ At(i, "rollback", "listed")
  /\ LET preservedBranch == Find(inv[i].branchesRes, inv[i].preserveName)
     IN  IF preservedBranch = NotFound
         THEN /\ Throw(i)
              /\ UNCHANGED <<ms, mainBranchId>>
         ELSE /\ ms' = [ms EXCEPT !.rollback = Append(@, d)]
              /\ mainBranchId' = Adopted(preservedBranch, inv[i].restoreId)
              /\ Return(i)
  /\ UNCHANGED <<initPc, initLocals, nextId, pending, cancelCalled, metadata, mainDbUri,
                 checkpointBranches, previewBranches>>
  /\ UNCHANGED outsideVars

\* ---------------------------------------------------------------- the cancel handle
\* The handles invoked so far, one per task at most.
CancelsSoFar == Cardinality({c \in Kinds : cancelCalled[c]})

\* The handle scheduleAtRate returned is invoked between two turns of the
\* event loop: clearTimeout(timeoutId) removes the pending timer.
Cancel(chain) ==
  /\ Running
  /\ initPc = "ready"
  /\ CancelsSoFar < MaxCancels
  /\ pending' = ClearTimeout(pending, chain)
  /\ cancelCalled' = [cancelCalled EXCEPT ![chain] = TRUE]
  /\ UNCHANGED <<initPc, initLocals, mutex, inv, nextId, failureStats, failed, finished>>
  /\ UNCHANGED entityVars
  /\ UNCHANGED outsideVars

\* The handle is invoked inside the timer callback, by the synchronous part of
\* the work: timeoutId is still the timer that has just fired.
FireAndCancel(chain) ==
  /\ CancelsSoFar < MaxCancels
  /\ TimerFires(chain, TRUE)
  /\ cancelCalled' = [cancelCalled EXCEPT ![chain] = TRUE]

\* ---------------------------------------------------------------- calculatePercentiles
\* sorted with x put in its place: after the elements that are not greater.
RECURSIVE Insert(_, _)
Insert(x, sorted) ==
  IF sorted = <<>> THEN <<x>>
  ELSE IF x < Head(sorted) THEN <<x>> \o sorted
  ELSE <<Head(sorted)>> \o Insert(x, Tail(sorted))

\* A sort that returns the array as it is.
MutantNoSort(vs) == vs

\* [...values].sort((a, b) => a - b): the values in ascending order.
RECURSIVE Sort(_)
Sort(vs) ==
  IF vs = <<>> THEN <<>>
  ELSE Insert(vs[Len(vs)], Sort(SubSeq(vs, 1, Len(vs) - 1)))

\* The keys of the result: `p${p}` for p of [10, 50, 90, 99].
PercentileKeys == {"p10", "p50", "p90", "p99"}

PercentileOf(key) ==
  CASE key = "p10" -> 10
    [] key = "p50" -> 50
    [] key = "p90" -> 90
    [] OTHER -> 99

\* Math.ceil((p / 100) * n) - 1.  The double (p / 100) * n rounds up to the
\* same integer as the exact p * n / 100 for the four values of p.
PercentileIndex(p, n) == ((p * n + 99) \div 100) - 1

\* Math.max(0, index)
Max0(index) == IF index < 0 THEN 0 ELSE index

\* sorted[...] || 0: what is undefined or 0 counts as 0.
OrZero(sorted, index) ==
  IF index + 1 \in DOMAIN sorted THEN sorted[index + 1] ELSE 0

\* calculatePercentiles(values): no entry for no value, else the four entries.
calculatePercentiles(vs) ==
  IF Len(vs) = 0 THEN <<>>
  ELSE LET sorted == Sort(vs)
       IN  [key \in PercentileKeys |->
              OrZero(sorted, Max0(PercentileIndex(PercentileOf(key), Len(sorted))))]

\* A caller passes an array of durations to calculatePercentiles.
PercentilesInit ==
  /\ EntityInit
  /\ RunInit
  /\ values \in SeqsUpTo(Durations, MaxSamples)
  /\ result = NotReturned
  /\ intervalMs = 0
  /\ delay = 0

\* The call returns.
CalculatePercentiles ==
  /\ result = NotReturned
  /\ result' = calculatePercentiles(values)
  /\ UNCHANGED <<values, intervalMs, delay>>
  /\ UNCHANGED <<taskVars, failureStats, out, runVars>>

SpecPercentiles == PercentilesInit /\ [][CalculatePercentiles]_vars

\* ---------------------------------------------------------------- addNormalNoise
\* The doubles of scheduleAtRate are fixed-point numbers here, 500 units to
\* the millisecond, together with the two infinities: [inf |-> 0, n |-> x] is
\* x units, [inf |-> 1] is Infinity and [inf |-> -1] is -Infinity.
Finite(x) == [inf |-> 0, n |-> x]

PlusInfinity == [inf |-> 1, n |-> 0]

MinusInfinity == [inf |-> -1, n |-> 0]

\* Results of Math.random(), a double of [0, 1): 0, the least positive one,
\* the greatest one, and some between.
Uniforms1 == {"0", "2^-53", "0.001", "0.01", "0.1", "0.5", "0.9", "1-2^-53"}

\* Results of Math.random() that spread 2 * Math.PI * u2 over the circle.
Uniforms2 == {"0", "1/8", "1/4", "3/8", "1/2", "5/8", "3/4", "7/8"}

\* ratePerMinute as a fraction: the rates of options.rpm in the two variants
\* of index.ts (1 / 5, 1, 10, 750) and those of the comment above them.
Rates == {[num |-> 1, den |-> 5], [num |-> 1, den |-> 1], [num |-> 10, den |-> 1],
          [num |-> 750, den |-> 1], [num |-> 6, den |-> 1], [num |-> 8, den |-> 1],
          [num |-> 15, den |-> 1], [num |-> 500, den |-> 1]}

\* Math.sqrt(-2 * Math.log(u1)), in tenths: Math.log(0) is -Infinity.
SqrtLog(u1) ==
  CASE u1 = "0" -> PlusInfinity
    [] u1 = "2^-53" -> Finite(86)
    [] u1 = "0.001" -> Finite(37)
    [] u1 = "0.01" -> Finite(30)
    [] u1 = "0.1" -> Finite(21)
    [] u1 = "0.5" -> Finite(12)
    [] u1 = "0.9" -> Finite(5)
    [] OTHER -> Finite(0)

\* Math.cos(2 * Math.PI * u2), in tenths, and its sign: the double is never
\* 0, since no double is an odd multiple of pi / 2.
Cos(u2) ==
  CASE u2 = "0" -> [tenths |-> 10, sign |-> 1]
    [] u2 = "1/8" -> [tenths |-> 7, sign |-> 1]
    [] u2 = "1/4" -> [tenths |-> 0, sign |-> 1]
    [] u2 = "3/8" -> [tenths |-> -7, sign |-> -1]
    [] u2 = "1/2" -> [tenths |-> -10, sign |-> -1]
    [] u2 = "5/8" -> [tenths |-> -7, sign |-> -1]
    [] u2 = "3/4" -> [tenths |-> 0, sign |-> -1]
    [] OTHER -> [tenths |-> 7, sign |-> 1]

\* z, in hundredths: Infinity times a double that is not 0 is an infinity of
\* its sign.
BoxMuller(u1, u2) ==
  IF SqrtLog(u1).inf = 1
  THEN IF Cos(u2).sign > 0 THEN PlusInfinity ELSE MinusInfinity
  ELSE Finite(SqrtLog(u1).n * Cos(u2).tenths)

\* value + z * stddev, for a finite value and a finite stddev > 0; z is in
\* hundredths, and the stddev of every rate of Rates is a multiple of 100 units.
Noised(value, stddev, z) ==
  IF z.inf # 0 THEN z ELSE Finite(value + z.n * (stddev \div 100))

\* A return without the clamp.
MutantNoClamp(noised) == noised

\* Math.max(0, noised)
MaxZero(noised) ==
  IF noised.inf = -1 \/ (noised.inf = 0 /\ noised.n < 0) THEN Finite(0)
  ELSE noised

\* addNormalNoise(value, stddev), u1 and u2 being its two Math.random() draws.
addNormalNoise(value, stddev, u1, u2) ==
  MaxZero(Noised(value, stddev, BoxMuller(u1, u2)))

\* (60 * 1000) / ratePerMinute, in units.
IntervalMs(ratePerMinute) ==
  (60 * 1000 * 500 * ratePerMinute.den) \div ratePerMinute.num

\* scheduleNext: the delay of the next timer; intervalMs * 0.2 is interval / 5.
Delay(interval, u1, u2) == addNormalNoise(interval, interval \div 5, u1, u2)

\* scheduleAtRate(fn, ratePerMinute, onError) was called: intervalMs is set and
\* scheduleNext has armed the first timer.
ScheduleInit ==
  /\ EntityInit
  /\ RunInit
  /\ values = <<>>
  /\ result = NotReturned
  /\ \E ratePerMinute \in Rates, u1 \in Uniforms1, u2 \in Uniforms2 :
       /\ intervalMs = IntervalMs(ratePerMinute)
       /\ delay = Delay(intervalMs, u1, u2)

\* The timer fires and scheduleNext arms the next one.
ScheduleNextTimer(u1, u2) ==
  /\ delay' = Delay(intervalMs, u1, u2)
  /\ UNCHANGED <<values, result, intervalMs>>
  /\ UNCHANGED <<taskVars, failureStats, out, runVars>>

ScheduleNextStep == \E u1 \in Uniforms1, u2 \in Uniforms2 : ScheduleNextTimer(u1, u2)

SpecSchedule == ScheduleInit /\ [][ScheduleNextStep]_vars

\* ---------------------------------------------------------------- displayTestSummary
\* projects.map(p => p.metadata?.writeMs).filter(...).flat() and the like: the
\* samples of a kind over the projects array, which holds the entity once its
\* init has returned.
Flat(k) == IF initPc = "ready" /\ metadata # Undefined THEN ms[k] ELSE <<>>

\* displayPercentileTable: nothing for no sample, else the count and the
\* percentiles.
DisplayPercentileTable(durations) ==
  IF Len(durations) = 0 THEN <<>>
  ELSE [samples |-> Len(durations), percentiles |-> calculatePercentiles(durations)]

\* What displayTestSummary logs: per kind the table, and the failure ratio
\* failureStats.action.<kind> / (samples + failureStats.action.<kind>).
DisplayTestSummary ==
  [event |-> "summary",
   tables |-> [k \in Kinds |-> DisplayPercentileTable(Flat(k))],
   failures |-> [k \in Kinds |-> failureStats.action[k]],
   attempted |-> [k \in Kinds |-> Len(Flat(k)) + failureStats.action[k]]]

\* ---------------------------------------------------------------- handleExit
\* process.exit(0)
ProcessExit == [event |-> "exit", code |-> 0]

\* A handler that exits before it renders.
MutantExitFirst(summary) == <<ProcessExit>>

\* handleExit: displayTestSummary(projects), then process.exit(0).
ExitEffects(summary) == <<summary, ProcessExit>>

\* SIGINT: the handler runs in one turn, whatever is in flight, and the
\* process is gone; no later turn runs.
HandleExit ==
  /\ Running
  /\ out' = ExitEffects(DisplayTestSummary)
  /\ UNCHANGED <<taskVars, failureStats, runVars, utilVars>>

\* ---------------------------------------------------------------- direct calls
\* What a caller other than the tasks passes to an operation: a connection
\* string for writeUser, a branch id for createPreview and rollback.  The
\* precondition does not look at the argument, so one value of each is enough.
DirectArgs(kind) ==
  CASE kind = "write" -> {"uri"}
    [] kind = "checkpoint" -> {Undefined}
    [] OTHER -> {"br-a"}

\* A caller that does not wait for init calls writeUser, createCheckpoint,
\* createPreview or rollback on the project.
DirectCall(kind, arg) ==
  /\ Running
  /\ metadata = Undefined
  /\ Invoke(kind, "direct", arg)
  /\ UNCHANGED <<initPc, initLocals, pending, cancelCalled, failureStats, failed, finished>>
  /\ UNCHANGED entityVars
  /\ UNCHANGED outsideVars

Ids == 1..MaxInv

\* The steps of init.
InitNext ==
  \/ \E ok, hasRole, hasDb \in BOOLEAN, b \in CreatedBranchIds :
       InitCreateProject(ok, hasRole, hasDb, b)
  \/ \E ok \in BOOLEAN : InitGetConnectionUri(ok)
  \/ \E ok \in BOOLEAN, rows \in 0..1 : InitSql(ok, rows)
  \/ \E ok \in BOOLEAN : InitEnd(ok)

\* The steps of the invocations of the operations.
OperationNext ==
  \/ \E i \in Ids, name \in PreserveNames : Enter(i, name)
  \/ \E i \in Ids : CallFails(i)
  \/ \E i \in Ids : WriteInsertReturn(i)
  \/ \E i \in Ids, d \in Durations : WriteEndReturn(i, d)
  \/ \E i \in Ids, b \in BranchIds, d \in Durations : CheckpointReturn(i, b, d)
  \/ \E i \in Ids, b \in BranchIds, hasEndpoint \in BOOLEAN :
       PreviewCreateReturn(i, b, hasEndpoint)
  \/ \E i \in Ids : PreviewSelectReturn(i)
  \/ \E i \in Ids, d \in Durations : PreviewEndReturn(i, d)
  \/ \E i \in Ids, rid \in BranchIds : RestoreReturn(i, rid)
  \/ \E i \in Ids, branches \in Listings : ListResponse(i, branches)
  \/ \E i \in Ids, d \in Durations : ListReturn(i, d)

Next ==
  \/ InitNext
  \/ \E chain \in Kinds : Fire(chain)
  \/ OperationNext

\* The program: nothing in it invokes a cancel handle.
Spec == Init /\ [][Next]_vars

\* The program with a caller that invokes the cancel handles.
CancelNext ==
  \/ Next
  \/ \E chain \in Kinds : Cancel(chain)
  \/ \E chain \in Kinds : FireAndCancel(chain)

SpecCancel == Init /\ [][CancelNext]_vars

\* The project with a caller of its operations that does not wait for init, in
\* the place of the tasks.
DirectNext ==
  \/ InitNext
  \/ \E kind \in Kinds : \E arg \in DirectArgs(kind) : DirectCall(kind, arg)
  \/ OperationNext

SpecDirect == Init /\ [][DirectNext]_vars

\* The program with an interrupt signal.
ExitNext ==
  \/ Next
  \/ HandleExit

SpecExit == Init /\ [][ExitNext]_vars

\* The program with backend and database calls that may never return.  The
\* event loop runs every callback that is ready: init goes on, due timers
\* fire, and a call that does answer is handled.
StallNext ==
  \/ Next
  \/ \E i \in Ids : Stall(i)

SpecStall ==
  /\ Init
  /\ [][StallNext]_vars
  /\ WF_vars(InitNext)
  /\ WF_vars(\E chain \in Kinds : Fire(chain))
  /\ WF_vars(OperationNext)

\* What the backend answers in SpecFair: whether and when an invocation ends
\* depends on the answers only through the endpoint check of createPreview and
\* the lookup of rollback, so one duration, one branch id, a listing without
\* the preserved branch and a listing with it stand for all answers.
FairDurations == {0}

FairBranchIds == {"br-a"}

FairListings == {<<>>, <<[id |-> "br-a", name |-> "main-old-1"]>>}

FairOperationNext ==
  \/ \E i \in Ids, name \in PreserveNames : Enter(i, name)
  \/ \E i \in Ids : CallFails(i)
  \/ \E i \in Ids : WriteInsertReturn(i)
  \/ \E i \in Ids, d \in FairDurations : WriteEndReturn(i, d)
  \/ \E i \in Ids, b \in FairBranchIds, d \in FairDurations : CheckpointReturn(i, b, d)
  \/ \E i \in Ids, b \in FairBranchIds, hasEndpoint \in BOOLEAN :
       PreviewCreateReturn(i, b, hasEndpoint)
  \/ \E i \in Ids : PreviewSelectReturn(i)
  \/ \E i \in Ids, d \in FairDurations : PreviewEndReturn(i, d)
  \/ \E i \in Ids, rid \in FairBranchIds : RestoreReturn(i, rid)
  \/ \E i \in Ids, branches \in FairListings : ListResponse(i, branches)
  \/ \E i \in Ids, d \in FairDurations : ListReturn(i, d)

FairNext ==
  \/ InitNext
  \/ \E chain \in Kinds : Fire(chain)
  \/ FairOperationNext

\* The program when every backend and database call returns or fails and the
\* event loop runs every callback that is ready.
SpecFair ==
  /\ Init
  /\ [][FairNext]_vars
  /\ WF_vars(InitNext)
  /\ WF_vars(\E chain \in Kinds : Fire(chain))
  /\ WF_vars(FairOperationNext)

\* The started projects of the population and their locks, with calls that
\* may never return.  A call that is answered is handled, whatever the calls
\* on other projects do.
PopulationNext ==
  \/ \E p \in Projects : ProjectFire(p)
  \/ \E c \in CallIds : ProjectEnter(c)
  \/ \E c \in CallIds, threw \in BOOLEAN : ProjectReturn(c, threw)
  \/ \E c \in CallIds : ProjectStall(c)

PopulationInit == EntityInit /\ UtilInit /\ StartedInit

SpecPopulation ==
  /\ PopulationInit
  /\ [][PopulationNext]_vars
  /\ \A c \in CallIds :
       WF_vars(ProjectEnter(c) \/ \E threw \in BOOLEAN : ProjectReturn(c, threw))

\* run and the population, with every project reduced to its init.
RunNext ==
  \/ \E p \in Projects, ok, hasRole, hasDb \in BOOLEAN, rows \in 0..1 :
       ProjectInitStep(p, ok, hasRole, hasDb, rows)
  \/ \E p \in Projects, rows \in 0..1 : InitialProjectReady(p, rows)
  \/ \E p \in Projects, ok, hasRole, hasDb \in BOOLEAN, rows \in 0..1 :
       InitialProjectFails(p, ok, hasRole, hasDb, rows)
  \/ \E p \in Projects : CreationFires(p)
  \/ \E p \in Projects, rows \in 0..1 : CreatedProjectReady(p, rows)
  \/ \E p \in Projects, ok, hasRole, hasDb \in BOOLEAN, rows \in 0..1 :
       CreatedProjectFails(p, ok, hasRole, hasDb, rows)

SpecRun == Init /\ [][RunNext]_vars

\* ---------------------------------------------------------------- C1
\* The invocations that hold the lock: granted it, or inside the callback.
Holding == {i \in DOMAIN inv : inv[i].pc # "waiting"}

\* C1: at most one of the write, checkpoint, preview and rollback invocations
\* of the entity holds the lock (is in its critical section) at any instant.
C1_MutualExclusion == Cardinality(Holding) <= 1

\* One invocation is inside its callback while another of the same kind and one
\* of another kind, fired meanwhile, wait.
C1_Witness ==
  \E i, j, k \in DOMAIN inv :
    /\ inv[i].pc \in InCallback
    /\ inv[j].pc = "waiting" /\ inv[j].kind = inv[i].kind
    /\ inv[k].pc = "waiting" /\ inv[k].kind # inv[i].kind

\* ---------------------------------------------------------------- C2
\* C2: invocations enter in the order of their lock requests (invocation ids
\* follow the requests), whatever their kinds: nobody holds the lock while an
\* earlier requester still waits.
C2_Fifo ==
  \A i, j \in DOMAIN inv :
    inv[i].pc # "waiting" /\ inv[j].pc = "waiting" => i < j

\* A checkpoint that had queued behind a write holds the lock while a write
\* that asked later waits.
C2_Witness ==
  \E i, j \in DOMAIN inv :
    /\ inv[i].queued /\ inv[i].pc \in InCallback /\ inv[i].kind = "checkpoint"
    /\ inv[j].pc = "waiting" /\ inv[j].kind = "write" /\ i < j

\* ---------------------------------------------------------------- C3
\* C3: the lock is never left with an invocation that has ended: its holder is
\* an invocation in flight, and whenever invocations wait, one holds it.
C3_LockReleased ==
  /\ mutex.holder # 0 => mutex.holder \in Holding
  /\ \A j \in DOMAIN inv : inv[j].pc = "waiting" => mutex.holder \in Holding
  /\ mutex.holder = 0 => mutex.queue = <<>>

\* Invocation 1 threw on a failed call, and invocation 2, which had queued
\* behind it, has the lock.
C3_Witness ==
  /\ DOMAIN inv = {2}
  /\ inv[2].queued /\ inv[2].pc \in InCallback
  /\ failed["checkpoint"] = 1
  /\ mutex.holder = 2

\* ---------------------------------------------------------------- C4
\* C4: after any number of failed invocations of a task, its next timer is
\* armed.
C4_ChainSurvivesFailure ==
  \A k \in Kinds : failed[k] > 0 => pending[k]

\* The first checkpoint failed; the second was fired after that (it found the
\* lock free) and the timer is armed again.
C4_Witness ==
  /\ failed["checkpoint"] = 1 /\ Len(ms["checkpoint"]) = 0
  /\ DOMAIN inv = {2}
  /\ inv[2].kind = "checkpoint" /\ ~inv[2].queued
  /\ pending["checkpoint"]

\* ---------------------------------------------------------------- C5
\* A step in which an invocation throws.
FailureStep == failed' # failed

\* C5: each per-kind failure counter equals the number of invocations of that
\* kind that have thrown; a throw ends one invocation, starts none (no retry),
\* adds one to the counter of its own kind and leaves the other counters and
\* failureStats.project alone.
C5_FailuresCounted ==
  /\ [](\A k \in Kinds : failureStats.action[k] = failed[k])
  /\ [][FailureStep =>
          /\ \E i \in DOMAIN inv :
               /\ DOMAIN inv' = DOMAIN inv \ {i}
               /\ failureStats'.action =
                    [failureStats.action EXCEPT ![inv[i].kind] = @ + 1]
          /\ failureStats'.project = failureStats.project
          /\ nextId' = nextId]_vars

\* A preview and a checkpoint have failed, and nothing else.
C5_Witness ==
  /\ failureStats.action["preview"] = 1
  /\ failureStats.action["checkpoint"] = 1
  /\ failureStats.action["write"] = 0
  /\ failureStats.action["rollback"] = 0

\* ---------------------------------------------------------------- C6
\* C6: once the tasks are registered, the timer of each is pending in every
\* state, whatever work of it is in flight or waiting for the lock: the next
\* timer is armed in the turn that launches the work.
C6_TimerAlwaysArmed ==
  initPc = "ready" => \A k \in Kinds : pending[k]

\* Every invocation the bound allows is a write in flight, one in its callback
\* and the others waiting, and the write timer is armed again.
C6_Witness ==
  /\ Cardinality(DOMAIN inv) >= 3
  /\ \A i \in DOMAIN inv : inv[i].chain = "write"
  /\ \E i \in DOMAIN inv : inv[i].pc = "waiting"
  /\ pending["write"]

\* ---------------------------------------------------------------- C7
\* C7: once the cancel handle of a task was invoked, no timer of the task fires
\* any more (the work is not invoked again).
C7_CancelStopsChain ==
  [][\A k \in Kinds :
       cancelCalled[k] => ~(\E h \in BOOLEAN : TimerFires(k, h))]_vars

\* ---------------------------------------------------------------- C8
\* The ids of the listed branches that carry the name.
IdsNamed(branches, name) ==
  {branches[n].id : n \in {m \in 1..Len(branches) : branches[m].name = name}}

\* Invocation i, which has its listing, ends in this step.
RollbackEnds(i) == At(i, "rollback", "listed") /\ i \notin DOMAIN inv'

\* C8: a rollback that succeeds leaves in mainBranchId the id of a listed
\* branch that carries its preserveName, also when the restore response
\* reported another id.
C8_RollbackAdoptsListed ==
  [][\A i \in DOMAIN inv :
       RollbackEnds(i) /\ ~FailureStep =>
         /\ mainBranchId' \in IdsNamed(inv[i].branchesRes, inv[i].preserveName)
         /\ inv[i].restoreId \notin IdsNamed(inv[i].branchesRes, inv[i].preserveName)
              => mainBranchId' # inv[i].restoreId]_vars

\* A rollback has succeeded and mainBranchId is no longer the branch of the
\* createProject response.
C8_Witness ==
  /\ Len(ms["rollback"]) = 1
  /\ failed["rollback"] = 0
  /\ mainBranchId \in BranchIds

\* ---------------------------------------------------------------- C9
\* C9: a rollback whose listing has no branch of its preserveName fails: the
\* rollback counter goes up by one, mainBranchId keeps its value and rollbackMs
\* gets no sample.
C9_RollbackFailsUnlisted ==
  [][\A i \in DOMAIN inv :
       RollbackEnds(i) /\ IdsNamed(inv[i].branchesRes, inv[i].preserveName) = {} =>
         /\ failureStats'.action["rollback"] = failureStats.action["rollback"] + 1
         /\ mainBranchId' = mainBranchId
         /\ ms'["rollback"] = ms["rollback"]]_vars

\* A rollback holds a listing of branches none of which has its preserveName.
C9_Witness ==
  \E i \in DOMAIN inv :
    /\ At(i, "rollback", "listed")
    /\ inv[i].branchesRes # <<>>
    /\ IdsNamed(inv[i].branchesRes, inv[i].preserveName) = {}

\* ---------------------------------------------------------------- C10
\* C10: the timer of the preview or rollback task firing while
\* checkpointBranches is empty changes nothing: the lock, the invocations, the
\* counters, the samples and the entity stay as they are.
C10_SkipIsNoOp ==
  [][\A chain \in {"preview", "rollback"} :
       checkpointBranches = {} /\ Fire(chain) =>
         UNCHANGED <<mutex, inv, nextId, failureStats, failed, metadata, ms,
                     mainDbUri, mainBranchId, checkpointBranches,
                     previewBranches>>]_vars

\* The preview and rollback timers are pending with no checkpoint made, while
\* a write holds the lock.
C10_Witness ==
  /\ initPc = "ready"
  /\ checkpointBranches = {}
  /\ pending["preview"] /\ pending["rollback"]
  /\ \E i \in DOMAIN inv : inv[i].kind = "write" /\ inv[i].pc \in InCallback

\* ---------------------------------------------------------------- C11
\* The init of project p throws in this step.
InitFails(p) == projectInit[p] # "failed" /\ projectInit'[p] = "failed"

\* C11: a project whose init failed is never in the projects array and never
\* has its tasks registered, and the step in which its init fails adds one to
\* failureStats.project.
C11_InitFailureCounted ==
  /\ [](\A p \in Projects :
          projectInit[p] = "failed" => p \notin StartAll(projects) \cup started)
  /\ [][\A p \in Projects :
          InitFails(p) => failureStats'.project = failureStats.project + 1]_vars

\* ---------------------------------------------------------------- C12
\* Every init of the initial population is over.
SettledInitial ==
  \A p \in InitialProjects : projectInit[p] \in {"ready", "failed"}

FailedInitial == {p \in InitialProjects : projectInit[p] = "failed"}

ReadyInitial == {p \in InitialProjects : projectInit[p] = "ready"}

\* C12: once every init of the initial population is over and some have
\* failed, each failure is counted in failureStats.project, the projects
\* that were initialized are started, and the project-creation task is
\* registered.
C12_StartupProceeds ==
  SettledInitial /\ FailedInitial # {} =>
    /\ failureStats.project >= Cardinality(FailedInitial)
    /\ ReadyInitial \subseteq started
    /\ creationTimer
    /\ runPc = "running"

\* ---------------------------------------------------------------- C13
\* The step changes a branch set, mainBranchId or a sample sequence.
EntityChanges ==
  \/ checkpointBranches' # checkpointBranches
  \/ previewBranches' # previewBranches
  \/ mainBranchId' # mainBranchId
  \/ ms' # ms

\* The step is one of the invocation that holds the lock, inside its callback.
StepOfHolder ==
  /\ mutex.holder \in DOMAIN inv
  /\ inv[mutex.holder].pc \in InCallback
  /\ mutex.holder \notin DOMAIN inv' \/ inv'[mutex.holder] # inv[mutex.holder]

\* C13: every step that changes checkpointBranches, previewBranches,
\* mainBranchId or a sample sequence is a step of the invocation that holds
\* the lock of the entity; the steps of init are no exception.
C13_MutationsUnderLock == [][EntityChanges => StepOfHolder]_vars

Below(vs, x) == Cardinality({n \in DOMAIN vs : vs[n] < x})

AtMost(vs, x) == Cardinality({n \in DOMAIN vs : vs[n] <= x})

\* x is what stands at index r, counted from 0, once vs is in ascending order.
IsRanked(vs, x, r) == Below(vs, x) <= r /\ r < AtMost(vs, x)

\* max(0, ceil(p / 100 * n) - 1), the ceiling being the least integer c with
\* 100 * c >= p * n.
NearestRank(p, n) ==
  LET c == CHOOSE c \in 0..n : 100 * c >= p * n /\ 100 * (c - 1) < p * n
  IN  IF c = 0 THEN 0 ELSE c - 1

\* C15: for a non-empty array calculatePercentiles returns, for p of 10, 50,
\* 90 and 99, the value at index max(0, ceil(p / 100 * n) - 1) of the array in
\* ascending order, so that p10 <= p50 <= p90 <= p99 and each is one of the
\* values; for the empty array it returns no entry.
C15_Percentiles ==
  result # NotReturned =>
    IF values = <<>> THEN DOMAIN result = {}
    ELSE /\ DOMAIN result = PercentileKeys
         /\ \A key \in PercentileKeys :
              /\ IsRanked(values, result[key],
                          NearestRank(PercentileOf(key), Len(values)))
              /\ \E n \in DOMAIN values : values[n] = result[key]
         /\ result["p10"] <= result["p50"]
         /\ result["p50"] <= result["p90"]
         /\ result["p90"] <= result["p99"]

\* Ten values that were not in order, of which p90 and p99 differ.
C15_Witness ==
  /\ Len(values) = 10
  /\ values[1] > values[10]
  /\ result # NotReturned
  /\ result["p10"] = result["p90"]
  /\ result["p90"] < result["p99"]

\* ---------------------------------------------------------------- C16
\* Invocation i is over in this step.
Ends(i) == i \in DOMAIN inv /\ i \notin DOMAIN inv'

\* C16: per kind, the samples plus the failures counted equal the invocations
\* that are over, and so does the attempted count of the summary at the exit;
\* a step that ends an invocation either appends one sample of its kind and
\* counts no failure, or counts one failure of its kind and appends no sample;
\* a step that ends none (a skipped firing among them) records nothing.
C16_SampleOrFailure ==
  /\ [](\A k \in Kinds : Len(ms[k]) + failureStats.action[k] = finished[k])
  /\ [](~Running => \A k \in Kinds : out[1].attempted[k] = finished[k])
  /\ [][\A i \in DOMAIN inv :
          Ends(i) =>
            \/ /\ \E d \in Durations :
                    ms' = [ms EXCEPT ![inv[i].kind] = Append(@, d)]
               /\ failureStats' = failureStats
            \/ /\ ms' = ms
               /\ failureStats' =
                    [failureStats EXCEPT !.action[inv[i].kind] = @ + 1]]_vars
  /\ [][(\A i \in DOMAIN inv : ~Ends(i)) =>
          ms' = ms /\ failureStats' = failureStats]_vars

\* The summary at the exit counts two checkpoints attempted, one sample and
\* one failure, while a third invocation is still in flight.
C16_Witness ==
  /\ ~Running
  /\ out[1].attempted["checkpoint"] = 2
  /\ Len(ms["checkpoint"]) = 1
  /\ failureStats.action["checkpoint"] = 1
  /\ DOMAIN inv # {}

\* ---------------------------------------------------------------- C17
\* C17: the delay that scheduleNext passes to setTimeout is never negative,
\* whatever the rate and the two uniform draws: it is 0 or more, or Infinity.
C17_DelayNeverNegative ==
  delay.inf = 1 \/ (delay.inf = 0 /\ delay.n >= 0)

\* A draw more than five standard deviations below the mean: the delay is the
\* clamp's 0 (no draw of the tables gives a sum of exactly 0).
C17_Witness ==
  /\ intervalMs > 0
  /\ delay = Finite(0)

\* ---------------------------------------------------------------- C19
\* C19: no invocation is inside its callback (awaiting a backend or database
\* call) unless init has returned; and when the callback of an invocation
\* starts on a project whose init has not returned, the invocation ends in
\* that step by a throw, no other invocation is started, and metadata, the
\* samples, mainDbUri, mainBranchId and the branch sets stay as they are.
C19_PreconditionFailure ==
  /\ [](\A i \in DOMAIN inv : inv[i].pc \in InCallback => initPc = "ready")
  /\ [][\A i \in DOMAIN inv :
          /\ inv[i].pc = "granted"
          /\ initPc # "ready"
          /\ i \notin DOMAIN inv' \/ inv'[i] # inv[i]
          => /\ Ends(i)
             /\ failed' = [failed EXCEPT ![inv[i].kind] = @ + 1]
             /\ nextId' = nextId
             /\ UNCHANGED entityVars]_vars

\* Before the smoke test of init is over, when mainBranchId and mainDbUri are
\* already set, a rollback and a write called directly have thrown, and a
\* preview waits its turn.
C19_Witness ==
  /\ initPc = "insert"
  /\ failed["rollback"] = 1
  /\ failed["write"] = 1
  /\ \E i \in DOMAIN inv : inv[i].kind = "preview" /\ inv[i].chain = "direct"

\* ---------------------------------------------------------------- C20
\* The invocation whose call never returns.
Stalled(i) == i \in DOMAIN inv /\ inv[i].pc = "never"

InitSequence ==
  <<"createProject", "getConnectionUri", "createTable", "insert", "select",
    "end", "ready">>

\* The place of a position of init in InitSequence.
InitIndex(pc) == CHOOSE n \in 1..Len(InitSequence) : InitSequence[n] = pc

\* C22: metadata is set and the tasks are registered only when init is over;
\* init reaches that point one await at a time in the order createProject,
\* getConnectionUri, CREATE TABLE, INSERT, SELECT, sql.end(), or else
\* throws; when it is over the creation response held a role and a database,
\* mainDbUri is set and the SELECT returned at least one row; and in the step
\* that sets metadata mainBranchId is the branch id of the creation response.
C22_ReadyAfterSmokeTest ==
  /\ [](metadata # Undefined \/ (\E k \in Kinds : pending[k]) \/ inv # <<>>
          => initPc = "ready")
  /\ [](initPc = "ready" =>
          /\ metadata # Undefined
          /\ initLocals.hasRole
          /\ initLocals.hasDb
          /\ mainDbUri # Undefined
          /\ initLocals.rows > 0)
  /\ [][initPc' # initPc =>
          \/ initPc' = "failed" /\ initPc # "ready"
          \/ InitIndex(initPc') = InitIndex(initPc) + 1]_vars
  /\ [][metadata = Undefined /\ metadata' # Undefined =>
          /\ mainBranchId' = initLocals.branchId
          /\ mainBranchId' \in CreatedBranchIds]_vars

\* init has just returned: metadata is set, the four timers are armed, and no
\* operation was called yet.
C22_Witness ==
  /\ initPc = "ready"
  /\ metadata = "set"
  /\ mainBranchId = initLocals.branchId
  /\ \A k \in Kinds : pending[k]
  /\ nextId = 1

\* ---------------------------------------------------------------- C23
\* C23: previewBranches changes only in a step of a createPreview invocation
\* whose SELECT on the new branch has returned or returns in that step, a step
\* in which that invocation does not throw; and a step in which a
\* createPreview invocation throws leaves previewBranches and previewMs as
\* they are.
C23_PreviewSetAfterRead ==
  [][/\ previewBranches' # previewBranches =>
          /\ \E i \in DOMAIN inv : /\ inv[i].kind = "preview"
                                   /\ inv[i].pc \in {"select", "end"}
                                   /\ i \notin DOMAIN inv' \/ inv'[i] # inv[i]
          /\ failed'["preview"] = failed["preview"]
     /\ failed'["preview"] # failed["preview"] =>
          /\ previewBranches' = previewBranches
          /\ ms'["preview"] = ms["preview"]]_vars

\* ---------------------------------------------------------------- C24
\* C24: no step removes an id from checkpointBranches; a step in which a
\* createCheckpoint invocation ends without a throw leaves in it the one id it
\* adds; and the id that a createPreview or rollback invocation was called
\* with is in checkpointBranches from the call on, and so when its callback
\* starts.
C24_CheckpointSetGrows ==
  /\ [][checkpointBranches \subseteq checkpointBranches']_vars
  /\ [][/\ finished'["checkpoint"] # finished["checkpoint"]
        /\ failed'["checkpoint"] = failed["checkpoint"]
        => /\ checkpointBranches' # {}
           /\ Cardinality(checkpointBranches' \ checkpointBranches) <= 1
           /\ checkpointBranches' \subseteq BranchIds]_vars
  /\ [](\A i \in DOMAIN inv :
          inv[i].kind \in {"preview", "rollback"} =>
            inv[i].arg \in checkpointBranches)
  /\ [][\A i \in DOMAIN inv :
          /\ inv[i].kind \in {"preview", "rollback"}
          /\ inv[i].pc = "granted"
          /\ i \in DOMAIN inv' /\ inv'[i].pc \in InCallback
          => inv[i].arg \in checkpointBranches']_vars

\* A createPreview that waited for the lock behind a createCheckpoint is inside
\* its callback, and the set has grown to two ids in the meantime.
C24_Witness ==
  \E i \in DOMAIN inv :
    /\ inv[i].kind = "preview"
    /\ inv[i].queued
    /\ inv[i].pc = "createBranch"
    /\ inv[i].arg \in checkpointBranches
    /\ Cardinality(checkpointBranches) = 2

\* ---------------------------------------------------------------- C25
\* C25: an invocation that has asked for the lock is eventually inside its
\* callback, and an invocation in flight is eventually over; by then it has
\* recorded a sample or was counted as a failure (C16).
C25_EveryInvocationFinishes ==
  \A j \in Ids :
    /\ (j \in DOMAIN inv /\ inv[j].pc \in {"waiting", "granted"})
         ~> (j \in DOMAIN inv /\ inv[j].pc \in InCallback)
    /\ (j \in DOMAIN inv) ~> (j \notin DOMAIN inv)

\* All the invocations of the run, one of each of MaxInv kinds, are over, one
\* of them by a throw.
C25_Witness ==
  /\ nextId = MaxInv + 1
  /\ inv = <<>>
  /\ \E k \in Kinds : finished[k] = 1 /\ failed[k] = 1
  /\ Cardinality({k \in Kinds : finished[k] > 0}) = MaxInv

\* ---------------------------------------------------------------- C21
\* A call on project p never answers.
StalledOn(p) == \E c \in DOMAIN calls : calls[c].project = p /\ calls[c].pc = "never"

\* C21: a call waits for the lock only behind a call on its own project; a
\* step of a call on one project changes neither the lock nor a call of
\* another project; the timers of a started project can fire whatever the
\* locks hold; and a call in flight on a project is eventually over unless a
\* call on that same project never answers, however many calls on other
\* projects hold their locks for good.
C21_ProjectsDoNotBlock ==
  /\ [](nextCall <= MaxInv => \A p \in started : ENABLED ProjectFire(p))
  /\ [](\A c \in DOMAIN calls :
          calls[c].pc = "waiting" =>
            \E h \in DOMAIN calls : /\ h # c
                                    /\ calls[h].project = calls[c].project
                                    /\ locks[calls[c].project].holder = h)
  /\ [][\A p \in Projects :
          locks'[p] # locks[p] =>
            \A q \in Projects \ {p} :
              /\ locks'[q] = locks[q]
              /\ completed'[q] = completed[q]
              /\ \A c \in DOMAIN calls :
                   calls[c].project = q => c \in DOMAIN calls' /\ calls'[c] = calls[c]]_vars
  /\ \A p \in Projects : \A c \in CallIds :
       (c \in DOMAIN calls /\ calls[c].project = p)
         ~> (c \notin DOMAIN calls \/ StalledOn(p))

\* The first call, on project 1, never answers and holds the lock of project
\* 1; the calls made after it on project 2 are all over.
C21_Witness ==
  /\ 1 \in DOMAIN calls /\ calls[1].project = 1 /\ calls[1].pc = "never"
  /\ DOMAIN calls = {1}
  /\ nextCall = MaxInv + 1
  /\ completed[2] = MaxInv - 1
====
